---------------------------- MODULE Spec2Model ----------------------------
(***************************************************************************)
(* Model of the Spectre PHT-SA-IP research toolkit: the victim function,   *)
(* the byte-guessing engine spectre_pht_sa_ip_read, the experiment driver  *)
(* main, and the Flush+Reload threshold calibration.                       *)
(*                                                                         *)
(* size_t values are 64-bit; they are represented by the set of their set  *)
(* bit positions (a subset of 0..63), so the bit twiddling of the source   *)
(* is set algebra and no 64-bit value has to fit a model-checker integer.  *)
(***************************************************************************)
EXTENDS Integers, Sequences, FiniteSets, TLC

(***************************************************************************)
(* Program constants.                                                      *)
(***************************************************************************)
PAGESIZE == 256
NSLOTS == 256
ARRAY1_LEN == 160
array1_size == 16
ARRAY2_FILL == 1
DEFAULT_TRIES == 999
DEFAULT_LOOPS == 30
GEM5_COUNT == 10

Slots == 0 .. (NSLOTS - 1)

\* uint8_t array1[160] = {1, 2, ..., 16}: the remaining bytes are zero.
array1(n) == IF n < 16 THEN n + 1 ELSE 0

(***************************************************************************)
(* Machine words.                                                          *)
(***************************************************************************)
SIZE_BITS == 64
INT_BITS == 32
FLT_MANT == 24

Pow2(n) == 2 ^ n

\* The bits of a natural number below 2^31.
Bits(n) == { b \in 0 .. 30 : (n \div Pow2(b)) % 2 = 1 }

RECURSIVE Val(_)
\* The natural number of a bit set (defined when every bit is below 31).
Val(s) == IF s = {} THEN 0
          ELSE LET b == CHOOSE c \in s : TRUE IN Pow2(b) + Val(s \ {b})

MaxOf(s) == CHOOSE b \in s : \A c \in s : c <= b

\* Conversion int -> 32-bit two's complement pattern (n >= -1 is all the
\* engine produces: (i % 6) - 1 with i >= 0).
IntBits(n) == IF n >= 0 THEN Bits(n)
              ELSE (0 .. (INT_BITS - 1)) \ Bits(-n - 1)

\* Conversion int -> size_t: sign extension of the 32-bit pattern.
IntToSizeT(ib) == IF (INT_BITS - 1) \in ib
                  THEN ib \cup (INT_BITS .. (SIZE_BITS - 1))
                  ELSE ib

BitAnd(a, b) == a \cap b
BitOr(a, b) == a \cup b
BitXor(a, b) == (a \ b) \cup (b \ a)
ShiftRight(a, n) == { b - n : b \in { c \in a : c >= n } }

\* 2^64 - n as a size_t, for 1 <= n < 2^31.
SizeTNeg(n) == (0 .. (SIZE_BITS - 1)) \ Bits(n - 1)

\* x + 1 modulo 2^64.
SizeTInc(x) ==
    LET free == (0 .. (SIZE_BITS - 1)) \ x IN
    IF free = {} THEN {}
    ELSE LET z == CHOOSE b \in free : \A c \in free : b <= c
         IN  (x \ (0 .. (z - 1))) \cup {z}

\* The integer comparison x < n of a size_t against a small natural number.
SizeTLess(x, n) == (\A b \in x : b <= 30) /\ Val(x) < n

(***************************************************************************)
(* Single-precision floats: <<m, e>> stands for m * 2^e, m < 2^24.         *)
(***************************************************************************)
\* (float) x: round to nearest even on a 24-bit significand.
FloatOf(x) ==
    IF x = {} THEN <<0, 0>>
    ELSE LET h == MaxOf(x) IN
         IF h < FLT_MANT THEN <<Val(x), 0>>
         ELSE LET e      == h - (FLT_MANT - 1)
                  mant   == Val(ShiftRight(x, e))
                  guard  == (e - 1) \in x
                  sticky == \E b \in x : b < e - 1
                  up     == guard /\ (sticky \/ mant % 2 = 1)
                  m      == IF up THEN mant + 1 ELSE mant
              IN  IF m = Pow2(FLT_MANT) THEN <<Pow2(FLT_MANT - 1), e + 1>>
                  ELSE <<m, e>>

\* a / b for b a power of two (array1_size is 16): the division is exact.
FloatDivPow2(a, b) == <<a[1], a[2] - (b[2] + MaxOf(Bits(b[1])))>>

\* f < 1.
FloatLessOne(f) == IF f[2] >= 0 THEN f[1] = 0 ELSE f[1] < Pow2(-f[2])

(***************************************************************************)
(* Integer helpers.                                                        *)
(***************************************************************************)
\* a ^ b on non-negative ints.
NatXor(a, b) == Val(BitXor(Bits(a), Bits(b)))

(***************************************************************************)
(* Bounds of the model.                                                    *)
(***************************************************************************)
\* Largest round budget explored with the unconstrained timing channel.
MaxTries == 3
\* Number of probe slots the unconstrained channel may report as hits.
HotCount == 2
\* Number of secret bytes the driver reads (strlen(secret) in the source).
MaxOffsets == 2
\* Largest number of meta-repetitions.
MaxMeta == 1

\* Candidates the unconstrained channel may report as cached, in the order
\* HotCount admits them.
HotList == <<0, 1, 65, 255, 8, 2>>
Hot == { HotList[n] : n \in 1 .. HotCount }

\* Injected true values of the deterministic mock channel.
MockValues == {0, 2, 8, 65, 255}

\* First bytes of the secret string "The Magic Words ...".
Secret == <<84, 104, 101, 32>>

\* Memory outside array1 holds bytes the model does not track.
OutsideBytes == {0, 84}

(***************************************************************************)
(* State.                                                                  *)
(***************************************************************************)
VARIABLES
    args,                 \* struct arguments
    oracle,               \* behaviour of the timing channel in this run
    env,                  \* environment: GEM5_SIM, memory layout, latencies
    CACHE_HIT_THRESHOLD,  \* util.c global
    array2,               \* the byte every element of array2 holds
    mpc,                  \* position of main
    meta,                 \* main: meta-repetition counter
    off,                  \* main: index i of the secret byte being read
    malicious_x,          \* main: offset handed to the engine
    guesses,              \* main: <<value, score>> per byte read so far
    stats,                \* main: statistic entries written so far
    ci,                   \* flush_reload_threshold: loop counter
    reload_time,          \* flush_reload_threshold: sum of reload samples
    flush_reload_time,    \* flush_reload_threshold: sum of flush+reload samples
    dummy_cached,         \* flush_reload_threshold: *ptr is cache-resident
    pc,                   \* position of spectre_pht_sa_ip_read
    results,              \* static int results[256]
    tries,                \* static int tries
    loops,                \* static int loops
    i,                    \* int i
    j,                    \* int j
    k,                    \* int k
    junk,                 \* int junk
    training_x,           \* size_t training_x
    x,                    \* size_t x
    a1_read,              \* array1 offsets read by the last victim_function call
    a2_read,              \* array2 offsets read by the last victim_function call
    oob,                  \* an array1 offset >= array1_size was ever read
    visited,              \* probe slots measured so far in this round
    hitcount,             \* per candidate: rounds of this call classified as hit
    rounds,               \* rounds started in this call
    stopped,              \* how the round loop of this call ended
    time2,                \* register uint64_t time2: the last measured latency
    cached,               \* probe slots loaded since they were last flushed
    last_op,              \* the last memory operation: access, flush or mfence
    calls,                \* kind of each victim_function call of this round
    perf_fd_cache_miss,   \* perf.c: static int perf_fd_cache_miss
    perf_fd_branch_miss,  \* perf.c: static int perf_fd_branch_miss
    errlog,               \* lines written to stderr
    size_cached,          \* array1_size is cache-resident
    x_cached,             \* the parameter x of victim_function is cache-resident
    fence                 \* the last fence executed: mfence or ifence

vars == <<args, oracle, env, CACHE_HIT_THRESHOLD, array2, mpc, meta, off,
          malicious_x, guesses, stats, ci, reload_time, flush_reload_time,
          dummy_cached, pc, results, tries, loops, i, j, k, junk, training_x, x, a1_read, a2_read, oob, visited, hitcount,
          rounds, stopped, time2, cached, last_op, calls,
          perf_fd_cache_miss, perf_fd_branch_miss, errlog,
          size_cached, x_cached, fence>>

perfVars == <<perf_fd_cache_miss, perf_fd_branch_miss, errlog>>
orderVars == <<size_cached, x_cached, fence>>
calibVars == <<ci, reload_time, flush_reload_time, dummy_cached>>
mainVars == <<mpc, meta, off, malicious_x, guesses, stats, array2,
              CACHE_HIT_THRESHOLD, calibVars>>
engineVars == <<pc, results, tries, loops, i, j, k, junk, training_x,
                visited, hitcount, rounds, stopped>>
victimVars == <<x, a1_read, a2_read, oob>>

ZeroTable == [c \in Slots |-> 0]

(***************************************************************************)
(* victim_function                                                         *)
(***************************************************************************)
\* Variant: a signed 32-bit comparison (int) x < (int) array1_size.
BoundsCheckSigned(x0) ==
    \/ (INT_BITS - 1) \in x0
    \/ Val({ b \in x0 : b < INT_BITS - 1 }) < array1_size

\* if ((float) x / (float) array1_size < 1)
BoundsCheck(x0) ==
    FloatLessOne(FloatDivPow2(FloatOf(x0), FloatOf(Bits(array1_size))))

\* The byte at array1 + x0.
Array1Bytes(x0) == IF SizeTLess(x0, ARRAY1_LEN) THEN {array1(Val(x0))}
                   ELSE OutsideBytes

\* Architectural effect of victim_function(x0): the reads it commits.
victim_function(x0) ==
    /\ x' = x0
    /\ size_cached' = TRUE
    /\ x_cached' = TRUE
    /\ fence' = "ifence"
    /\ IF BoundsCheck(x0)
       THEN /\ a1_read' = {x0}
            /\ \E b \in Array1Bytes(x0) :
                  /\ a2_read' = {b * PAGESIZE}
                  /\ cached' = cached \cup {b}
            /\ oob' = (oob \/ ~ SizeTLess(x0, array1_size))
            /\ last_op' = "access"
       ELSE /\ a1_read' = {}
            /\ a2_read' = {}
            /\ oob' = oob
            /\ cached' = cached
            /\ last_op' = "mfence"

(***************************************************************************)
(* The timing channel.                                                     *)
(***************************************************************************)
\* Latencies the channel reports for a cached and for an uncached slot.
HitLatencies(thr) == {thr \div 2, thr}
MissLatencies(thr) == {thr + 1}

\* The latencies rdtsc() may measure for probe slot c in this run.
Latencies(c) ==
    IF oracle.mode = "mock"
    THEN IF c = oracle.v THEN HitLatencies(CACHE_HIT_THRESHOLD)
         ELSE MissLatencies(CACHE_HIT_THRESHOLD)
    ELSE IF c \in oracle.hot
         THEN HitLatencies(CACHE_HIT_THRESHOLD) \cup MissLatencies(CACHE_HIT_THRESHOLD)
         ELSE MissLatencies(CACHE_HIT_THRESHOLD)

(***************************************************************************)
(* flush_reload_threshold                                                  *)
(***************************************************************************)
\* Variant: the weighted sum is halved.
ThresholdOfHalf(reload_sum, flush_reload_sum, count) ==
    LET mean_reload       == reload_sum \div count
        mean_flush_reload == flush_reload_sum \div count
    IN  (mean_flush_reload + mean_reload * 2) \div 2

\* The value returned for the sums of the two series of count samples.
ThresholdOf(reload_sum, flush_reload_sum, count) ==
    LET mean_reload       == reload_sum \div count
        mean_flush_reload == flush_reload_sum \div count
    IN  (mean_flush_reload + mean_reload * 2) \div 3

(***************************************************************************)
(* spectre_pht_sa_ip_read                                                  *)
(***************************************************************************)
\* Variant: the mask is not folded down (no x |= x >> 16).
SelectXNoFold(i0, tx, mx) ==
    LET m1 == IntToSizeT(BitAnd(IntBits((i0 % 6) - 1),
                                16 .. (INT_BITS - 1)))
    IN  BitXor(tx, BitAnd(m1, BitXor(mx, tx)))

\* x = (i % 6 != 0) ? training_x : malicious_x, by bit twiddling.

SelectX(i0, tx, mx) ==
    LET m1 == IntToSizeT(BitAnd(IntBits((i0 % 6) - 1),
                                16 .. (INT_BITS - 1)))
        m2 == BitOr(m1, ShiftRight(m1, 16))
    IN  BitXor(tx, BitAnd(m2, BitXor(mx, tx)))

\* Variant: an even multiplier.
MixSkew(i0) == ((i0 * 166) + 13) % 256

\* mix_i = ((i * 167) + 13) & 255

Mix(i0) == ((i0 * 167) + 13) % 256

\* Variant: the training byte is not excluded.
IsHitNoExclusion(t, c, tx) == t <= CACHE_HIT_THRESHOLD

\* Variant: a latency equal to the threshold is no hit.
IsHitStrict(t, c, tx) == t < CACHE_HIT_THRESHOLD /\ c # array1(Val(tx))

\* time2 <= CACHE_HIT_THRESHOLD && mix_i != array1[training_x]

IsHit(t, c, tx) == t <= CACHE_HIT_THRESHOLD /\ c # array1(Val(tx))

\* Variant: a new best candidate does not demote the old one to second.
ScanStepNoDemote(res, i0, jk) ==
    IF jk[1] < 0 \/ res[i0] >= res[jk[1]] THEN <<i0, jk[2]>>
    ELSE IF jk[2] < 0 \/ res[i0] >= res[jk[2]] THEN <<jk[1], i0>>
    ELSE jk

\* Variant: ties keep the earlier candidate.
ScanStepStrict(res, i0, jk) ==
    IF jk[1] < 0 \/ res[i0] > res[jk[1]] THEN <<i0, jk[1]>>
    ELSE IF jk[2] < 0 \/ res[i0] > res[jk[2]] THEN <<jk[1], i0>>
    ELSE jk

\* One iteration of the scan loop at index i0, on the pair jk = <<j, k>>.
ScanStep(res, i0, jk) ==
    IF jk[1] < 0 \/ res[i0] >= res[jk[1]] THEN <<i0, jk[1]>>
    ELSE IF jk[2] < 0 \/ res[i0] >= res[jk[2]] THEN <<jk[1], i0>>
    ELSE jk

RECURSIVE ScanRange(_, _, _, _)
\* The iterations lo .. hi-1 of the scan loop in order (the range is split
\* in halves only to keep the evaluation shallow).
ScanRange(res, lo, hi, jk) ==
    IF hi - lo = 1 THEN ScanStep(res, lo, jk)
    ELSE LET mid  == (lo + hi) \div 2
             left == ScanRange(res, lo, mid, jk)
         IN  IF left[1] >= 0 THEN ScanRange(res, mid, hi, left) ELSE left

\* j = k = -1; for (i = 0; i < 256; i++) ...
Scan(res) == ScanRange(res, 0, NSLOTS, <<-1, -1>>)

\* Variant: the best score must exceed twice the second.
ClearSuccessStrict(res, j0, k0) ==
    res[j0] > 2 * res[k0] \/ (res[j0] = 2 /\ res[k0] = 0)

\* Variant: the margin of the original proof of concept.
ClearSuccessMargin(res, j0, k0) ==
    res[j0] >= 2 * res[k0] + 5 \/ (res[j0] = 2 /\ res[k0] = 0)

\* results[j] >= 2 * results[k] || (results[j] == 2 && results[k] == 0)

ClearSuccess(res, j0, k0) ==
    res[j0] >= 2 * res[k0] \/ (res[j0] = 2 /\ res[k0] = 0)

\* Variant: the table is not cleared.
ReadEnterNoMemset ==
    /\ mpc = "loop" /\ pc = "idle" /\ off < env.secret_len
    /\ tries' = args.tries
    /\ loops' = args.loops
    /\ junk' = 0
    /\ hitcount' = ZeroTable
    /\ rounds' = 0
    /\ stopped' = "running"
    /\ j' = -1 /\ k' = -1
    /\ pc' = "for"
    /\ UNCHANGED <<args, oracle, env, mainVars, victimVars, i, training_x, visited,
                   results>>
    /\ last_op' = "access"
    /\ UNCHANGED <<time2, cached, calls, perfVars>>
    /\ UNCHANGED orderVars

\* Entry: the parameter setup and memset(results, 0, sizeof(results)).
ReadEnter ==
    /\ mpc = "loop" /\ pc = "idle" /\ off < env.secret_len
    /\ tries' = args.tries
    /\ loops' = args.loops
    /\ junk' = 0
    /\ results' = ZeroTable
    /\ hitcount' = ZeroTable
    /\ rounds' = 0
    /\ stopped' = "running"
    /\ j' = -1 /\ k' = -1
    /\ pc' = "for"
    /\ UNCHANGED <<args, oracle, env, mainVars, victimVars, i, training_x, visited>>
    /\ last_op' = "access"
    /\ UNCHANGED <<time2, cached, calls, perfVars>>
    /\ UNCHANGED orderVars

\* for (; tries > 0; ...): the loop test; i = 0 starts the flush loop.
RoundTest ==
    /\ pc = "for"
    /\ IF tries > 0
       THEN /\ pc' = "evict"
            /\ i' = 0
            /\ rounds' = rounds + 1
            /\ stopped' = stopped
       ELSE /\ pc' = "store"
            /\ i' = i
            /\ rounds' = rounds
            /\ stopped' = "exhausted"
    /\ UNCHANGED <<args, oracle, env, mainVars, victimVars, results, tries, loops,
                   j, k, junk, training_x, visited, hitcount>>
    /\ UNCHANGED <<time2, cached, last_op, calls, perfVars>>
    /\ UNCHANGED orderVars

\* The probe slots array2[i * PAGESIZE] the flush loop names: i = 0 .. 255.
FlushLoopSlots == 0 .. (NSLOTS - 1)

\* Variant: the training offset walks all of array1.
EvictChannelWide ==
    /\ pc = "evict"
    /\ cached' = cached \ FlushLoopSlots
    /\ last_op' = "mfence"
    /\ training_x' = Bits(tries % ARRAY1_LEN)
    /\ i' = loops
    /\ calls' = <<>>
    /\ pc' = "train"
    /\ UNCHANGED <<args, oracle, env, mainVars, victimVars, results, tries, loops,
                   j, k, junk, visited, hitcount, rounds, stopped>>
    /\ UNCHANGED <<time2, perfVars>>
    /\ size_cached' = TRUE
    /\ fence' = "ifence"
    /\ UNCHANGED x_cached

\* The flush loop over array2 and the setup of the training loop.
EvictChannel ==
    /\ pc = "evict"
    /\ cached' = cached \ FlushLoopSlots
    /\ last_op' = "mfence"
    /\ training_x' = Bits(tries % array1_size)
    /\ i' = loops
    /\ calls' = <<>>
    /\ pc' = "train"
    /\ UNCHANGED <<args, oracle, env, mainVars, victimVars, results, tries, loops,
                   j, k, junk, visited, hitcount, rounds, stopped>>
    /\ UNCHANGED <<time2, perfVars>>
    /\ size_cached' = TRUE
    /\ fence' = "ifence"
    /\ UNCHANGED x_cached

\* The flush loop in steps: flush(&array2[i * PAGESIZE]);
EvictFlush ==
    /\ pc = "evict" /\ i < NSLOTS
    /\ cached' = cached \ {i}
    /\ last_op' = "flush"
    /\ pc' = "evict_fence"
    /\ UNCHANGED <<args, oracle, env, mainVars, victimVars, results, tries, loops,
                   i, j, k, junk, training_x, visited, hitcount, rounds, stopped>>
    /\ UNCHANGED <<time2, calls, perfVars>>
    /\ UNCHANGED orderVars

\* Variant: the loop body has no fence.
EvictFenceNone ==
    /\ pc = "evict_fence"
    /\ i' = i + 1
    /\ pc' = "evict"
    /\ UNCHANGED <<args, oracle, env, mainVars, victimVars, results, tries, loops,
                   j, k, junk, training_x, visited, hitcount, rounds, stopped>>
    /\ UNCHANGED <<time2, cached, last_op, calls, perfVars>>
    /\ UNCHANGED orderVars

\* mfence(); ifence(); and the loop increment.
EvictFence ==
    /\ pc = "evict_fence"
    /\ last_op' = "mfence"
    /\ i' = i + 1
    /\ pc' = "evict"
    /\ UNCHANGED <<args, oracle, env, mainVars, victimVars, results, tries, loops,
                   j, k, junk, training_x, visited, hitcount, rounds, stopped>>
    /\ UNCHANGED <<time2, cached, calls, perfVars>>
    /\ fence' = "ifence"
    /\ UNCHANGED <<size_cached, x_cached>>

\* End of the flush loop and the setup of the training loop.
EvictDone ==
    /\ pc = "evict" /\ i = NSLOTS
    /\ training_x' = Bits(tries % array1_size)
    /\ i' = loops
    /\ calls' = <<>>
    /\ pc' = "train"
    /\ UNCHANGED <<args, oracle, env, mainVars, victimVars, results, tries, loops,
                   j, k, junk, visited, hitcount, rounds, stopped>>
    /\ UNCHANGED <<time2, cached, last_op, perfVars>>
    /\ size_cached' = TRUE
    /\ UNCHANGED <<x_cached, fence>>

\* The call is a training call or an attack call by the offset it passes.
CallKind(x0) == IF x0 = training_x THEN "training"
                ELSE IF x0 = malicious_x THEN "attack" ELSE "other"

\* One iteration of the training/attack loop.
VictimCall ==
    /\ pc = "train" /\ i >= 0
    /\ victim_function(SelectX(i, training_x, malicious_x))
    /\ calls' = Append(calls, CallKind(SelectX(i, training_x, malicious_x)))
    /\ i' = i - 1
    /\ UNCHANGED <<time2, perfVars>>
    /\ UNCHANGED <<args, oracle, env, mainVars, pc, results, tries, loops, j, k,
                   junk, training_x, visited, hitcount, rounds, stopped>>

\* The call in steps: the loop's mfence(), the selection of x, the call and
\* the first mfence() of victim_function.
VictimEnter ==
    /\ pc = "train" /\ i >= 0
    /\ x' = SelectX(i, training_x, malicious_x)
    /\ x_cached' = TRUE
    /\ last_op' = "mfence"
    /\ fence' = "mfence"
    /\ pc' = "v_flush"
    /\ UNCHANGED <<args, oracle, env, mainVars, results, tries, loops, i, j, k,
                   junk, training_x, visited, hitcount, rounds, stopped>>
    /\ UNCHANGED <<a1_read, a2_read, oob, time2, cached, calls, perfVars,
                   size_cached>>

\* flush(&array1_size); flush(&x);
VictimFlush ==
    /\ pc = "v_flush"
    /\ size_cached' = FALSE
    /\ x_cached' = FALSE
    /\ last_op' = "flush"
    /\ pc' = "v_fence"
    /\ UNCHANGED <<args, oracle, env, mainVars, victimVars, results, tries, loops,
                   i, j, k, junk, training_x, visited, hitcount, rounds, stopped>>
    /\ UNCHANGED <<time2, cached, calls, perfVars, fence>>

\* Variant: the instruction fence is missing.
VictimFenceNoIfence ==
    /\ pc = "v_fence"
    /\ last_op' = "mfence"
    /\ fence' = "mfence"
    /\ pc' = "v_check"
    /\ UNCHANGED <<args, oracle, env, mainVars, victimVars, results, tries, loops,
                   i, j, k, junk, training_x, visited, hitcount, rounds, stopped>>
    /\ UNCHANGED <<time2, cached, calls, perfVars, size_cached, x_cached>>

\* mfence(); ifence();
VictimFence ==
    /\ pc = "v_fence"
    /\ last_op' = "mfence"
    /\ fence' = "ifence"
    /\ pc' = "v_check"
    /\ UNCHANGED <<args, oracle, env, mainVars, victimVars, results, tries, loops,
                   i, j, k, junk, training_x, visited, hitcount, rounds, stopped>>
    /\ UNCHANGED <<time2, cached, calls, perfVars, size_cached, x_cached>>

\* The bounds check with the access it guards, the return and i--.
VictimCheck ==
    /\ pc = "v_check"
    /\ victim_function(x)
    /\ calls' = Append(calls, CallKind(x))
    /\ i' = i - 1
    /\ pc' = "train"
    /\ UNCHANGED <<args, oracle, env, mainVars, results, tries, loops, j, k,
                   junk, training_x, visited, hitcount, rounds, stopped>>
    /\ UNCHANGED <<time2, perfVars>>

\* Variant: the training loop is left before its last call.
TrainDoneEarly ==
    /\ pc = "train" /\ i <= 0
    /\ i' = 0
    /\ visited' = {}
    /\ pc' = "measure"
    /\ UNCHANGED <<args, oracle, env, mainVars, victimVars, results, tries, loops,
                   j, k, junk, training_x, hitcount, rounds, stopped>>
    /\ last_op' = "mfence"
    /\ UNCHANGED <<time2, cached, calls, perfVars>>
    /\ fence' = "mfence"
    /\ UNCHANGED <<size_cached, x_cached>>

\* End of the training loop; mfence(); start of the measurement loop.
TrainDone ==
    /\ pc = "train" /\ i < 0
    /\ i' = 0
    /\ visited' = {}
    /\ pc' = "measure"
    /\ UNCHANGED <<args, oracle, env, mainVars, victimVars, results, tries, loops,
                   j, k, junk, training_x, hitcount, rounds, stopped>>
    /\ last_op' = "mfence"
    /\ UNCHANGED <<time2, cached, calls, perfVars>>
    /\ fence' = "mfence"
    /\ UNCHANGED <<size_cached, x_cached>>

\* Variant: a hit adds 2 to the score.
MeasureStepTwice ==
    /\ pc = "measure" /\ i < NSLOTS
    /\ LET mix_i == Mix(i) IN
       \E t \in Latencies(mix_i) :
          /\ time2' = t
          /\ junk' = array2
          /\ cached' = cached \cup {mix_i}
          /\ visited' = visited \cup {mix_i}
          /\ IF IsHit(t, mix_i, training_x)
             THEN /\ results' = [results EXCEPT ![mix_i] = @ + 2]
                  /\ hitcount' = [hitcount EXCEPT ![mix_i] = @ + 1]
             ELSE UNCHANGED <<results, hitcount>>
    /\ i' = i + 1
    /\ UNCHANGED <<args, oracle, env, mainVars, victimVars, pc, tries, loops, j, k,
                   training_x, rounds, stopped>>
    /\ last_op' = "access"
    /\ UNCHANGED <<calls, perfVars>>
    /\ UNCHANGED orderVars

\* One iteration of the measurement loop.
MeasureStep ==
    /\ pc = "measure" /\ i < NSLOTS
    /\ LET mix_i == Mix(i) IN
       \E t \in Latencies(mix_i) :
          /\ time2' = t
          /\ junk' = array2
          /\ cached' = cached \cup {mix_i}
          /\ visited' = visited \cup {mix_i}
          /\ IF IsHit(t, mix_i, training_x)
             THEN /\ results' = [results EXCEPT ![mix_i] = @ + 1]
                  /\ hitcount' = [hitcount EXCEPT ![mix_i] = @ + 1]
             ELSE UNCHANGED <<results, hitcount>>
    /\ i' = i + 1
    /\ UNCHANGED <<args, oracle, env, mainVars, victimVars, pc, tries, loops, j, k,
                   training_x, rounds, stopped>>
    /\ last_op' = "access"
    /\ UNCHANGED <<calls, perfVars>>
    /\ UNCHANGED orderVars

\* The scan for first and second place.
ScoreScan ==
    /\ pc = "measure" /\ i = NSLOTS
    /\ j' = Scan(results)[1]
    /\ k' = Scan(results)[2]
    /\ pc' = "check"
    /\ UNCHANGED <<args, oracle, env, mainVars, victimVars, results, tries, loops,
                   i, junk, training_x, visited, hitcount, rounds, stopped>>
    /\ last_op' = "access"
    /\ UNCHANGED <<time2, cached, calls, perfVars>>
    /\ UNCHANGED orderVars

\* Variant: the round budget is not decremented.
ExitCheckNoDecrement ==
    /\ pc = "check"
    /\ IF ClearSuccess(results, j, k)
       THEN /\ pc' = "store"
            /\ stopped' = "break"
       ELSE /\ pc' = "for"
            /\ stopped' = stopped
    /\ UNCHANGED <<args, oracle, env, mainVars, victimVars, results, loops, i, j, k,
                   junk, training_x, visited, hitcount, rounds, tries>>
    /\ last_op' = "access"
    /\ UNCHANGED <<time2, cached, calls, perfVars>>
    /\ UNCHANGED orderVars

\* The early-exit test, and tries-- when it fails.
ExitCheck ==
    /\ pc = "check"
    /\ IF ClearSuccess(results, j, k)
       THEN /\ pc' = "store"
            /\ stopped' = "break"
            /\ tries' = tries
       ELSE /\ pc' = "for"
            /\ stopped' = stopped
            /\ tries' = tries - 1
    /\ UNCHANGED <<args, oracle, env, mainVars, victimVars, results, loops, i, j, k,
                   junk, training_x, visited, hitcount, rounds>>
    /\ last_op' = "access"
    /\ UNCHANGED <<time2, cached, calls, perfVars>>
    /\ UNCHANGED orderVars

\* The table after results[0] ^= junk.
FinalTable(res, jk) == [res EXCEPT ![0] = NatXor(@, jk)]

\* Store the guess and return to main: the loop increment of main follows.
ReadStore ==
    /\ pc = "store"
    /\ results' = FinalTable(results, junk)
    /\ guesses' = Append(guesses, <<j % 256, results'[j]>>)
    /\ off' = off + 1
    /\ malicious_x' = SizeTInc(malicious_x)
    /\ pc' = "idle"
    /\ UNCHANGED <<args, oracle, env, CACHE_HIT_THRESHOLD, array2, mpc, meta, stats,
                   calibVars, victimVars, tries, loops, i, j, k, junk, training_x,
                   visited, hitcount, rounds, stopped>>
    /\ last_op' = "access"
    /\ UNCHANGED <<time2, cached, calls, perfVars>>
    /\ UNCHANGED orderVars

(***************************************************************************)
(* flush_reload_threshold, step by step                                    *)
(***************************************************************************)
HW_COUNT == 100000

\* size_t count = gem5_is_sim() ? 10 : 100000;
Count == IF env.gem5 THEN GEM5_COUNT ELSE HW_COUNT

\* Cycles one timed mem_access(ptr) may take, by the residency of *ptr.
DummyLatencies == IF dummy_cached THEN env.hit_lats ELSE env.miss_lats

\* main: the threshold is the command-line value, else it is calibrated;
\* flush_reload_threshold starts with mem_access(ptr).
MetaStart ==
    /\ mpc = "meta" /\ meta < args.meta
    /\ IF args.cache_threshold # 0
       THEN /\ CACHE_HIT_THRESHOLD' = args.cache_threshold
            /\ mpc' = "prepare"
            /\ UNCHANGED <<calibVars, last_op>>
       ELSE /\ mpc' = "reload"
            /\ last_op' = "access"
            /\ ci' = 0
            /\ reload_time' = 0
            /\ flush_reload_time' = 0
            /\ dummy_cached' = TRUE
            /\ UNCHANGED CACHE_HIT_THRESHOLD
    /\ UNCHANGED <<args, oracle, env, array2, meta, off, malicious_x, guesses,
                   stats, engineVars, victimVars>>
    /\ UNCHANGED <<time2, cached, calls, perfVars>>
    /\ UNCHANGED orderVars

\* reload_time += reload_t(ptr);
CalibReload ==
    /\ mpc = "reload" /\ ci < Count
    /\ \E t \in DummyLatencies : reload_time' = reload_time + t
    /\ dummy_cached' = TRUE
    /\ ci' = ci + 1
    /\ UNCHANGED <<args, oracle, env, CACHE_HIT_THRESHOLD, array2, mpc, meta,
                   off, malicious_x, guesses, stats, flush_reload_time,
                   engineVars, victimVars>>
    /\ last_op' = "mfence"
    /\ UNCHANGED <<time2, cached, calls, perfVars>>
    /\ fence' = "mfence"
    /\ UNCHANGED <<size_cached, x_cached>>

\* End of the first loop.
CalibReloadDone ==
    /\ mpc = "reload" /\ ci = Count
    /\ ci' = 0
    /\ mpc' = "flush_reload"
    /\ UNCHANGED <<args, oracle, env, CACHE_HIT_THRESHOLD, array2, meta, off,
                   malicious_x, guesses, stats, reload_time, flush_reload_time,
                   dummy_cached, engineVars, victimVars>>
    /\ UNCHANGED <<time2, cached, last_op, calls, perfVars>>
    /\ UNCHANGED orderVars

\* flush_reload_time += flush_reload_t(ptr): timed access, then flush.
CalibFlushReload ==
    /\ mpc = "flush_reload" /\ ci < Count
    /\ \E t \in DummyLatencies : flush_reload_time' = flush_reload_time + t
    /\ dummy_cached' = FALSE
    /\ ci' = ci + 1
    /\ UNCHANGED <<args, oracle, env, CACHE_HIT_THRESHOLD, array2, mpc, meta,
                   off, malicious_x, guesses, stats, reload_time, engineVars,
                   victimVars>>
    /\ last_op' = "flush"
    /\ UNCHANGED <<time2, cached, calls, perfVars>>
    /\ fence' = "mfence"
    /\ UNCHANGED <<size_cached, x_cached>>

\* The two means and the returned threshold, assigned by main.
CalibReturn ==
    /\ mpc = "flush_reload" /\ ci = Count
    /\ reload_time' = reload_time \div Count
    /\ flush_reload_time' = flush_reload_time \div Count
    /\ CACHE_HIT_THRESHOLD' = ThresholdOf(reload_time, flush_reload_time, Count)
    /\ mpc' = "prepare"
    /\ UNCHANGED <<args, oracle, env, array2, meta, off, malicious_x, guesses,
                   stats, ci, dummy_cached, engineVars, victimVars>>
    /\ UNCHANGED <<time2, cached, last_op, calls, perfVars>>
    /\ UNCHANGED orderVars

(***************************************************************************)
(* main                                                                    *)
(***************************************************************************)
\* malicious_it = strlen(secret), cut to the bytes the model reads.
malicious_it == env.secret_len

RECURSIVE string_hamming_dist(_, _, _)
\* Number of positions 1..size where the guessed values differ from str1.
string_hamming_dist(str1, g, size) ==
    IF size = 0 THEN 0
    ELSE string_hamming_dist(str1, g, size - 1)
         + (IF str1[size] # g[size][1] THEN 1 ELSE 0)

RECURSIVE int_sum(_, _)
\* Sum of the first size guessed scores.
int_sum(g, size) ==
    IF size = 0 THEN 0 ELSE int_sum(g, size - 1) + g[size][2]

\* What a failed perf_event_open returns.
PERF_FAIL == -1

\* The line perf_init prints on stderr when a counter cannot be opened.
PerfFailLines(fd) == IF fd = PERF_FAIL THEN <<"perf_event_open fail">> ELSE <<>>

\* perf_init: open the two counters; a failure is reported, nothing else.
perf_init ==
    /\ perf_fd_cache_miss' = env.perf_open[1]
    /\ perf_fd_branch_miss' = env.perf_open[2]
    /\ errlog' = errlog \o PerfFailLines(env.perf_open[1])
                        \o PerfFailLines(env.perf_open[2])

\* What the uninitialized uint64_t result of perf_read_* may hold.
Indeterminate == {0, 1, 48879}

\* perf_read_*: read() stores the counter in result; on a descriptor that
\* was never opened read() fails and result is returned as it was.
perf_read(fd) == IF fd = PERF_FAIL THEN Indeterminate ELSE env.perf_counts

\* malicious_x, the guess arrays, memset(array2, 1, sizeof(array2)), mfence()
\* and, outside the simulator, perf_init().
MetaPrepare ==
    /\ mpc = "prepare"
    /\ malicious_x' = env.secret_dist
    /\ guesses' = <<>>
    /\ array2' = ARRAY2_FILL
    /\ cached' = Slots
    /\ last_op' = "mfence"
    /\ IF ~ env.gem5 THEN perf_init ELSE UNCHANGED perfVars
    /\ off' = 0
    /\ mpc' = "loop"
    /\ UNCHANGED <<time2, calls>>
    /\ UNCHANGED <<args, oracle, env, CACHE_HIT_THRESHOLD, meta, stats,
                   calibVars, engineVars, victimVars>>
    /\ fence' = "mfence"
    /\ UNCHANGED <<size_cached, x_cached>>

\* End of the loop over the secret's bytes: the statistics entry.
MetaEnd ==
    /\ mpc = "loop" /\ pc = "idle" /\ off = malicious_it
    /\ \E counter_cache_miss \in
             IF ~ env.gem5 THEN perf_read(perf_fd_cache_miss) ELSE {0} :
       \E counter_branch_miss \in
             IF ~ env.gem5 THEN perf_read(perf_fd_branch_miss) ELSE {0} :
          stats' = Append(stats,
                  [total   |-> malicious_it,
                   correct |-> malicious_it
                               - string_hamming_dist(Secret, guesses, malicious_it),
                   score_sum |-> int_sum(guesses, malicious_it),
                   cache_miss |-> counter_cache_miss,
                   branch_miss |-> counter_branch_miss])
    /\ meta' = meta + 1
    /\ mpc' = "meta"
    /\ UNCHANGED <<args, oracle, env, CACHE_HIT_THRESHOLD, array2, off,
                   malicious_x, guesses, calibVars, engineVars, victimVars>>
    /\ UNCHANGED <<time2, cached, last_op, calls, perfVars>>
    /\ UNCHANGED orderVars

\* return 0;
MainReturn ==
    /\ mpc = "meta" /\ meta = args.meta
    /\ mpc' = "exit"
    /\ UNCHANGED <<args, oracle, env, CACHE_HIT_THRESHOLD, array2, meta, off,
                   malicious_x, guesses, stats, calibVars, engineVars,
                   victimVars>>
    /\ UNCHANGED <<time2, cached, last_op, calls, perfVars>>
    /\ UNCHANGED orderVars

(***************************************************************************)
(* Specifications.                                                         *)
(***************************************************************************)
\* --cache_threshold on the command line; 0 when the option is absent.
CmdThresholds == {0, 100}
\* secret - (char *) array1 as a size_t: the secret below or above array1.
SecretDists == {SizeTNeg(4096), Bits(224)}
\* Cycles of a timed access under the deterministic simulator.
SimHitLats == {40}
SimMissLats == {220}
\* The descriptors perf_event_open returns when both counters open, and the
\* values the counters may then hold at the end of a repetition.
PerfOpened == <<3, 4>>
PerfCounts == {5000}

TriesSet == {1, MaxTries, DEFAULT_TRIES}
LoopsSet == {1, DEFAULT_LOOPS}

MockOracles == [mode : {"mock"}, v : MockValues]
FreeOracle == [mode |-> "free", v |-> 0, hot |-> Hot]

\* The environments: calibration runs under the simulator (GEM5_SIM set),
\* a threshold on the command line stands for a run on hardware.
Envs(a, len) ==
    [gem5 : {a.cache_threshold = 0},
     secret_dist : SecretDists,
     secret_len : {len},
     hit_lats : {SimHitLats},
     miss_lats : {SimMissLats},
     perf_open : {PerfOpened},
     perf_counts : {PerfCounts}]

InitRest ==
    /\ CACHE_HIT_THRESHOLD = 0
    /\ array2 = 0
    /\ mpc = "meta" /\ meta = 0 /\ off = 0
    /\ malicious_x = {}
    /\ guesses = <<>> /\ stats = <<>>
    /\ ci = 0 /\ reload_time = 0 /\ flush_reload_time = 0
    /\ dummy_cached = FALSE
    /\ pc = "idle"
    /\ results = ZeroTable /\ hitcount = ZeroTable
    /\ tries = 0 /\ loops = 0 /\ i = 0 /\ j = -1 /\ k = -1 /\ junk = 0
    /\ training_x = {} /\ x = {}
    /\ a1_read = {} /\ a2_read = {} /\ oob = FALSE
    /\ visited = {} /\ rounds = 0 /\ stopped = "running"
    /\ time2 = 0 /\ cached = {} /\ last_op = "none" /\ calls = <<>>
    /\ perf_fd_cache_miss = 0 /\ perf_fd_branch_miss = 0 /\ errlog = <<>>
    /\ size_cached = FALSE /\ x_cached = FALSE /\ fence = "none"

\* The driver over MaxOffsets secret bytes with the deterministic mock channel.
InitMock ==
    /\ args \in [tries : TriesSet, loops : LoopsSet, meta : 1 .. MaxMeta,
                 cache_threshold : CmdThresholds]
    /\ oracle \in MockOracles
    /\ env \in Envs(args, MaxOffsets)
    /\ InitRest

\* One byte read with the unconstrained channel, up to MaxTries rounds.
InitFree ==
    /\ args \in [tries : {1, MaxTries}, loops : LoopsSet, meta : {1},
                 cache_threshold : CmdThresholds]
    /\ oracle = FreeOracle
    /\ env \in Envs(args, 1)
    /\ InitRest

Init == InitMock \/ InitFree

Next ==
    \/ MetaStart
    \/ CalibReload
    \/ CalibReloadDone
    \/ CalibFlushReload
    \/ CalibReturn
    \/ MetaPrepare
    \/ ReadEnter
    \/ RoundTest
    \/ EvictChannel
    \/ VictimCall
    \/ TrainDone
    \/ MeasureStep
    \/ ScoreScan
    \/ ExitCheck
    \/ ReadStore
    \/ MetaEnd
    \/ MainReturn

Spec == Init /\ [][Next]_vars

(***************************************************************************)
(* The scan as a function of an arbitrary score table.                     *)
(***************************************************************************)
\* Largest score in the tables handed to the scan.
MaxScore == 5
\* Candidates whose score varies in those tables.
ScanSlots == {0, 1, 128, 255}

ScanTables ==
    { [c \in Slots |-> IF c \in ScanSlots THEN f[c] ELSE 0] :
        f \in [ScanSlots -> 0 .. MaxScore] }

InitScan ==
    /\ args = [tries |-> DEFAULT_TRIES, loops |-> DEFAULT_LOOPS, meta |-> 1,
               cache_threshold |-> 100]
    /\ oracle = FreeOracle
    /\ env = [gem5 |-> FALSE, secret_dist |-> SizeTNeg(4096),
              secret_len |-> 1,
              hit_lats |-> SimHitLats, miss_lats |-> SimMissLats,
              perf_open |-> PerfOpened, perf_counts |-> PerfCounts]
    /\ CACHE_HIT_THRESHOLD = 100
    /\ array2 = ARRAY2_FILL
    /\ mpc = "loop" /\ meta = 0 /\ off = 0
    /\ malicious_x = SizeTNeg(4096)
    /\ guesses = <<>> /\ stats = <<>>
    /\ ci = 0 /\ reload_time = 0 /\ flush_reload_time = 0
    /\ dummy_cached = FALSE
    /\ pc = "measure" /\ i = NSLOTS
    /\ results \in ScanTables
    /\ hitcount = results
    /\ tries = 1 /\ loops = DEFAULT_LOOPS /\ j = -1 /\ k = -1
    /\ junk = ARRAY2_FILL
    /\ training_x = Bits(1) /\ x = malicious_x
    /\ a1_read = {} /\ a2_read = {} /\ oob = FALSE
    /\ visited = Slots /\ rounds = 1 /\ stopped = "running"
    /\ time2 = CACHE_HIT_THRESHOLD + 1 /\ cached = Slots
    /\ last_op = "access"
    /\ calls = [n \in 1 .. (DEFAULT_LOOPS + 1) |->
                   IF (DEFAULT_LOOPS + 1 - n) % 6 = 0 THEN "attack"
                   ELSE "training"]
    /\ perf_fd_cache_miss = 3 /\ perf_fd_branch_miss = 4 /\ errlog = <<>>
    /\ size_cached = TRUE /\ x_cached = TRUE /\ fence = "mfence"

SpecScan == InitScan /\ [][ScoreScan]_vars

(***************************************************************************)
(* The calibration under varied latencies.                                 *)
(***************************************************************************)
CalibHitLats == {40, 41}
CalibMissLats == {42, 44, 50, 220}

InitCalib ==
    /\ args = [tries |-> DEFAULT_TRIES, loops |-> DEFAULT_LOOPS, meta |-> 1,
               cache_threshold |-> 0]
    /\ oracle = FreeOracle
    /\ env = [gem5 |-> TRUE, secret_dist |-> SizeTNeg(4096),
              secret_len |-> 1,
              hit_lats |-> CalibHitLats, miss_lats |-> CalibMissLats,
              perf_open |-> PerfOpened, perf_counts |-> PerfCounts]
    /\ InitRest

NextCalib ==
    \/ MetaStart
    \/ CalibReload
    \/ CalibReloadDone
    \/ CalibFlushReload
    \/ CalibReturn

SpecCalib == InitCalib /\ [][NextCalib]_vars

(***************************************************************************)
(* Properties.                                                             *)
(***************************************************************************)
LastGuess == guesses[Len(guesses)]
Returned == pc = "idle" /\ Len(guesses) > 0
AfterVictimCall == pc = "train" /\ i < loops

\* C1: architecturally, victim_function(x) reads array1[x] and the array2
\* slot array1[x] * PAGESIZE exactly when x < array1_size, and reads nothing
\* otherwise; no read of array1 at an index >= array1_size ever happens.
C1_ArchitecturalReads ==
    /\ ~ oob
    /\ AfterVictimCall =>
         IF SizeTLess(x, array1_size)
         THEN a1_read = {x} /\ a2_read = {array1(Val(x)) * PAGESIZE}
         ELSE a1_read = {} /\ a2_read = {}

C1_Witness ==
    /\ AfterVictimCall
    /\ x = malicious_x
    /\ ~ SizeTLess(x, array1_size)
    /\ a1_read = {} /\ a2_read = {}

FirstTrainingByte == array1(args.tries % array1_size)

C3_ScoreIsHitCount ==
    Returned => LastGuess[2] = hitcount[LastGuess[1]]

\* results[j] >= 2 * results[k] || (results[j] == 2 && results[k] == 0), as
\* the specification words it.
StopCondition ==
    results[j] >= 2 * results[k] \/ (results[j] = 2 /\ results[k] = 0)

IsDefaultMockRun ==
    /\ args.tries = DEFAULT_TRIES /\ args.loops = DEFAULT_LOOPS
    /\ args.cache_threshold = 100
    /\ oracle = [mode |-> "mock", v |-> 65]

\* C5: default configuration, threshold 100, mock channel leaking 0x41: one
\* round, value 0x41 returned, second-place score 0 at exit.
C5_DefaultMockOneRound ==
    IsDefaultMockRun =>
        /\ rounds <= 1
        /\ pc = "store" => (stopped = "break" /\ results[k] = 0 /\ j = 65)
        /\ Returned => (LastGuess[1] = 65 /\ rounds = 1)

C5_Witness == IsDefaultMockRun /\ Returned /\ LastGuess[1] = 65 /\ rounds = 1

MaxScoreOf(res) == CHOOSE m \in 0 .. MaxScore : 
                      /\ \E c \in Slots : res[c] = m
                      /\ \A c \in Slots : res[c] <= m

TieTable == [c \in Slots |-> IF c \in {0, 1} THEN 5 ELSE 0]

\* C6: on the table [5, 5, 0, ..., 0] the scan ends with j = 1 and k = 0; in
\* general the highest index among the candidates with the maximum score
\* becomes first place.
C6_TieBreak ==
    pc = "check" =>
        /\ results = TieTable => (j = 1 /\ k = 0)
        /\ LET m == MaxScoreOf(results)
           IN  j = MaxOf({ c \in Slots : results[c] = m })

C6_Witness == pc = "check" /\ results = TieTable /\ j = 1 /\ k = 0

\* C7: the visiting order (i * 167 + 13) & 255 is a bijection on 0..255: in a
\* round no slot is measured twice and after the loop all were measured.
C7_VisitBijection ==
    /\ pc = "measure" => Cardinality(visited) = i
    /\ pc = "check" => visited = Slots

C7_Witness == pc = "check" /\ visited = Slots /\ i = NSLOTS

Calibrated == mpc = "prepare" /\ args.cache_threshold = 0

\* C8 as stated: whenever the mean hit latency is below the mean miss
\* latency, the returned threshold lies strictly between the two.
C8_ThresholdStrictlyBetween ==
    (Calibrated /\ reload_time < flush_reload_time) =>
        /\ reload_time < CACHE_HIT_THRESHOLD
        /\ CACHE_HIT_THRESHOLD < flush_reload_time

\* C8 amended: for means h < m the threshold satisfies h <= threshold < m,
\* and h < threshold whenever m - h >= 3.
C8_ThresholdBetween ==
    (Calibrated /\ reload_time < flush_reload_time) =>
        /\ reload_time <= CACHE_HIT_THRESHOLD
        /\ CACHE_HIT_THRESHOLD < flush_reload_time
        /\ flush_reload_time - reload_time >= 3
             => reload_time < CACHE_HIT_THRESHOLD

C8_Witness ==
    /\ Calibrated
    /\ flush_reload_time - reload_time >= 3
    /\ reload_time < CACHE_HIT_THRESHOLD
    /\ CACHE_HIT_THRESHOLD < flush_reload_time

\* Steps the engine can still take: it decreases with every step of a call.
EngineRank ==
    LET round_cost == loops + NSLOTS + 9
        phase == CASE pc = "for"     -> loops + NSLOTS + 8
                   [] pc = "evict"   -> loops + NSLOTS + 7
                   [] pc = "train"   -> i + NSLOTS + 6
                   [] pc = "measure" -> (NSLOTS - i) + 2
                   [] pc = "check"   -> 1
                   [] OTHER          -> 0
    IN  tries * round_cost + phase

\* The guards of the engine's steps cover every position of a call.
CanStep ==
    \/ pc \in {"for", "evict", "check", "store"}
    \/ pc = "train" /\ i >= -1
    \/ pc = "measure" /\ i \in 0 .. NSLOTS /\ Latencies(Mix(i % NSLOTS)) # {}

\* C9: every call terminates: each step of a call decreases EngineRank and a
\* call in progress can always step; it runs between 1 and args.tries rounds
\* and ends by storing a candidate 0..255 found by the last scan.
C9_Terminates ==
    /\ [](rounds <= args.tries)
    /\ [](pc = "store" => (rounds >= 1 /\ j \in Slots /\ j = Scan(results)[1]))
    /\ [](Returned => (LastGuess[1] \in Slots /\ rounds >= 1))
    /\ [](pc # "idle" => (EngineRank >= 0 /\ CanStep))
    /\ [][(pc # "idle" /\ pc' # "idle") => EngineRank' < EngineRank]_vars

C9_Witness ==
    /\ pc = "store" /\ stopped = "exhausted"
    /\ rounds = args.tries /\ rounds = MaxTries

\* C10: all 256 scores are zero when the first round of a call starts,
\* whatever the previous call left in the static table.
C10_TableStartsZero ==
    ((pc = "for" /\ rounds = 0) \/ (pc = "evict" /\ rounds = 1)) =>
        results = ZeroTable

C10_Witness ==
    /\ pc = "evict" /\ rounds = 1
    /\ Len(guesses) = 1 /\ guesses[1] = <<65, 1>>
    /\ oracle = [mode |-> "mock", v |-> 65]
    /\ results = ZeroTable

(***************************************************************************)
(* A run on hardware where perf_event_open may be refused.                 *)
(***************************************************************************)
\* What the two perf_event_open calls may return.
PerfOutcomes == {<<PERF_FAIL, PERF_FAIL>>, <<PERF_FAIL, 4>>,
                 <<3, PERF_FAIL>>, PerfOpened}

InitPerf ==
    /\ args \in [tries : {1}, loops : {1}, meta : {1, 2},
                 cache_threshold : {100}]
    /\ oracle \in MockOracles
    /\ env \in [gem5 : {FALSE},
                secret_dist : SecretDists,
                secret_len : {1},
                hit_lats : {SimHitLats},
                miss_lats : {SimMissLats},
                perf_open : PerfOutcomes,
                perf_counts : {{0, 5000}}]
    /\ InitRest

NextPerf ==
    \/ MetaStart
    \/ MetaPrepare
    \/ ReadEnter
    \/ RoundTest
    \/ EvictChannel
    \/ VictimCall
    \/ TrainDone
    \/ MeasureStep
    \/ ScoreScan
    \/ ExitCheck
    \/ ReadStore
    \/ MetaEnd
    \/ MainReturn

SpecPerf == InitPerf /\ [][NextPerf]_vars

\* C11: when perf_event_open fails in perf_init, the failure is logged and
\* the statistics line of the repetition reports zero for the cache-miss and
\* the branch-mispredict counter.
C11_FailedCountersAreZero ==
    \A n \in 1 .. Len(stats) :
       /\ perf_fd_cache_miss = PERF_FAIL =>
             (Len(errlog) > 0 /\ stats[n].cache_miss = 0)
       /\ perf_fd_branch_miss = PERF_FAIL =>
             (Len(errlog) > 0 /\ stats[n].branch_miss = 0)

\* C12: in every round the training/attack phase makes exactly loops calls
\* of victim_function.
C12_LoopsCallsPerRound ==
    pc \in {"measure", "check"} => Len(calls) = loops

(***************************************************************************)
(* The offset selection over arbitrary secret distances.                   *)
(***************************************************************************)
\* size_t values: zero, small, single high bits, 2^32 - 1, 2^64 - 1, negated.
SizeSamples == {Bits(0), Bits(5), Bits(224), {16}, {31}, 0 .. 31, {63},
                0 .. (SIZE_BITS - 1), SizeTNeg(4096), SizeTNeg(1)}

\* The start of the training loop in the first round of a call.
InitSelect ==
    /\ args \in [tries : 1 .. array1_size, loops : {DEFAULT_LOOPS}, meta : {1},
                 cache_threshold : {100}]
    /\ oracle = FreeOracle
    /\ env \in [gem5 : {FALSE}, secret_dist : SizeSamples, secret_len : {1},
                hit_lats : {SimHitLats}, miss_lats : {SimMissLats},
                perf_open : {PerfOpened}, perf_counts : {PerfCounts}]
    /\ CACHE_HIT_THRESHOLD = args.cache_threshold
    /\ array2 = ARRAY2_FILL
    /\ mpc = "loop" /\ meta = 0 /\ off = 0
    /\ malicious_x = env.secret_dist
    /\ guesses = <<>> /\ stats = <<>>
    /\ ci = 0 /\ reload_time = 0 /\ flush_reload_time = 0
    /\ dummy_cached = FALSE
    /\ pc = "train"
    /\ results = ZeroTable /\ hitcount = ZeroTable
    /\ tries = args.tries /\ loops = args.loops /\ i = loops
    /\ j = -1 /\ k = -1 /\ junk = 0
    /\ training_x = Bits(tries % array1_size) /\ x = {}
    /\ a1_read = {} /\ a2_read = {} /\ oob = FALSE
    /\ visited = {} /\ rounds = 1 /\ stopped = "running"
    /\ time2 = 0 /\ cached = {} /\ last_op = "mfence" /\ calls = <<>>
    /\ perf_fd_cache_miss = PerfOpened[1]
    /\ perf_fd_branch_miss = PerfOpened[2]
    /\ errlog = <<>>
    /\ size_cached = TRUE /\ x_cached = FALSE /\ fence = "ifence"

SpecSelect == InitSelect /\ [][VictimCall]_vars

\* C13: the offset passed to victim_function at loop index i (the value of i
\* before the decrement) is malicious_x when i is a multiple of 6 and
\* training_x otherwise, for every i in 0 .. loops and every pair of offsets.
C13_SelectIsReference ==
    AfterVictimCall =>
        x = (IF (i + 1) % 6 = 0 THEN malicious_x ELSE training_x)

C13_Witness ==
    /\ AfterVictimCall
    /\ (i + 1) % 6 = 0 /\ i + 1 < loops
    /\ malicious_x = SizeTNeg(4096)
    /\ x = malicious_x /\ x # training_x
    /\ calls[Len(calls) - 1] = "training" /\ calls[Len(calls)] = "attack"

\* A step that times a memory access: one iteration of the measurement loop,
\* one reload_t or one flush_reload_t.
TimedAccessStep ==
    \/ pc = "measure" /\ i' = i + 1
    \/ mpc \in {"reload", "flush_reload"} /\ ci' = ci + 1

\* C14: every latency measurement is immediately preceded by a memory fence:
\* no memory access or flush lies between the last mfence and the first read
\* of the cycle counter.
C14_MeasurementsFenced ==
    [][TimedAccessStep => last_op = "mfence"]_vars

(***************************************************************************)
(* The engine with the flush loop taken one slot at a time.                *)
(***************************************************************************)
InitEvict ==
    /\ args \in [tries : {1, 2}, loops : {1}, meta : {1},
                 cache_threshold : {100}]
    /\ oracle = FreeOracle
    /\ env \in Envs(args, 1)
    /\ InitRest

NextEvict ==
    \/ MetaStart
    \/ MetaPrepare
    \/ ReadEnter
    \/ RoundTest
    \/ EvictFlush
    \/ EvictFence
    \/ EvictDone
    \/ VictimCall
    \/ TrainDone
    \/ MeasureStep
    \/ ScoreScan
    \/ ExitCheck
    \/ ReadStore
    \/ MetaEnd
    \/ MainReturn

SpecEvict == InitEvict /\ [][NextEvict]_vars

\* C15: in every round the flush loop evicts all 256 probe slots, a fence
\* follows each eviction before the next one, and the loop is complete before
\* the first victim_function call: when the training loop starts no probe
\* slot is cache-resident.
C15_AllEvictedBeforeTraining ==
    /\ [][(pc = "evict" /\ pc' = "evict_fence") =>
             (i \in Slots /\ (i > 0 => last_op = "mfence"))]_vars
    /\ [][(pc = "evict_fence" /\ pc' # "evict_fence") =>
             (pc' = "evict" /\ last_op' = "mfence" /\ i' = i + 1)]_vars
    /\ [][(pc # "train" /\ pc' = "train") =>
             (pc = "evict" /\ i = NSLOTS /\ cached' = {})]_vars
    /\ [](pc = "train" /\ calls = <<>> => cached = {})

C15_Witness ==
    /\ pc = "train" /\ calls = <<>> /\ rounds = 2
    /\ visited = Slots /\ cached = {}

(***************************************************************************)
(* Two repetitions with a calibrated threshold and varying miss latencies. *)
(***************************************************************************)
MetaMissLats == {220, 250}

InitMeta ==
    /\ args = [tries |-> 1, loops |-> 1, meta |-> 2, cache_threshold |-> 0]
    /\ oracle = [mode |-> "mock", v |-> 65]
    /\ env = [gem5 |-> TRUE, secret_dist |-> SizeTNeg(4096),
              secret_len |-> 1,
              hit_lats |-> SimHitLats, miss_lats |-> MetaMissLats,
              perf_open |-> PerfOpened, perf_counts |-> PerfCounts]
    /\ InitRest

SpecMeta == InitMeta /\ [][Next]_vars

\* C16: without a threshold on the command line the threshold is computed
\* once per run: after the first repetition has classified latencies with it,
\* and while spectre_pht_sa_ip_read executes, CACHE_HIT_THRESHOLD keeps its
\* value.
C16_ThresholdComputedOnce ==
    [][(Len(stats) > 0 \/ pc # "idle") =>
          CACHE_HIT_THRESHOLD' = CACHE_HIT_THRESHOLD]_vars

\* The calls of the finished training loop that passed the given kind.
CallsOfKind(kind) == { n \in 1 .. Len(calls) : calls[n] = kind }

\* C17: in every round there are exactly five training calls per attack call
\* and every attack call comes after five consecutive training calls of its
\* round.
C17_FiveTrainingPerAttack ==
    pc \in {"measure", "check"} =>
       /\ Cardinality(CallsOfKind("training"))
             = 5 * Cardinality(CallsOfKind("attack"))
       /\ \A n \in CallsOfKind("attack") :
             /\ n > 5
             /\ \A m \in (n - 5) .. (n - 1) : calls[m] = "training"

\* The positions of the round loop.
RoundLoop == {"for", "evict", "train", "measure", "check"}

\* C18: a measurement adds exactly 1 to the score of the measured candidate
\* when its latency is <= CACHE_HIT_THRESHOLD and the candidate is not
\* array1[training_x], and changes no score otherwise; no other step of the
\* round loop changes a score, and after r rounds every score is in 0 .. r.
C18_ScoreUpdates ==
    /\ [][(pc = "measure" /\ i' = i + 1) =>
            results' = [results EXCEPT ![Mix(i)] =
                          IF time2' <= CACHE_HIT_THRESHOLD
                             /\ Mix(i) # array1(Val(training_x))
                          THEN @ + 1 ELSE @]]_vars
    /\ [][(pc \in RoundLoop /\ ~ (pc = "measure" /\ i' = i + 1)) =>
            results' = results]_vars
    /\ [](pc \in RoundLoop => \A c \in Slots : results[c] \in 0 .. rounds)

C18_Witness ==
    /\ pc = "check" /\ rounds = 2
    /\ results[0] = 2 /\ results[1] = 1
    /\ time2 > CACHE_HIT_THRESHOLD

\* C19: every sample of the reload series is timed while *ptr is
\* cache-resident and every sample of the flush+reload series while it is
\* not, the first sample of the second series included.
C19_SamplesResidency ==
    [][/\ (mpc = "reload" /\ ci' = ci + 1) => dummy_cached
       /\ (mpc = "flush_reload" /\ ci' = ci + 1) => ~ dummy_cached]_vars

\* The order of the phases of a call: entry, round test, evict, train and
\* attack, measure, score, then early exit or the next round.
PhaseSteps == {<<"idle", "for">>, <<"for", "evict">>, <<"for", "store">>,
               <<"evict", "train">>, <<"train", "measure">>,
               <<"measure", "check">>, <<"check", "for">>,
               <<"check", "store">>, <<"store", "idle">>}

\* C20: the phases of a round follow each other in the order evict, train
\* and attack, measure, score: victim_function is called only between the
\* eviction and the first measurement, scores change only after the training
\* loop has ended, and the scan follows the 256th measurement.
C20_PhaseOrder ==
    /\ [][pc' # pc => <<pc, pc'>> \in PhaseSteps]_vars
    /\ [][(calls' # calls /\ calls' # <<>>) =>
            /\ pc = "train" /\ pc' = "train"
            /\ cached \subseteq {array1(Val(training_x))}]_vars
    /\ [][(pc = "train" /\ pc' = "measure") =>
            (i < 0 /\ Len(calls) = loops + 1)]_vars
    /\ [][(pc \in RoundLoop /\ (results' # results \/ time2' # time2)) =>
            pc = "measure"]_vars
    /\ [][(pc = "measure" /\ pc' = "check") =>
            (i = NSLOTS /\ visited = Slots
             /\ j' = Scan(results)[1] /\ k' = Scan(results)[2])]_vars

C20_Witness ==
    /\ pc = "check" /\ rounds = 2
    /\ Len(calls) = loops + 1 /\ visited = Slots
    /\ results[0] = 1 /\ results[1] = 2

(***************************************************************************)
(* The engine with victim_function taken one statement group at a time.    *)
(***************************************************************************)
InitVictim ==
    /\ args \in [tries : {1, 2}, loops : {1, DEFAULT_LOOPS}, meta : {1},
                 cache_threshold : {100}]
    /\ oracle = FreeOracle
    /\ env \in Envs(args, 1)
    /\ InitRest

NextVictim ==
    \/ MetaStart
    \/ MetaPrepare
    \/ ReadEnter
    \/ RoundTest
    \/ EvictChannel
    \/ VictimEnter
    \/ VictimFlush
    \/ VictimFence
    \/ VictimCheck
    \/ TrainDone
    \/ MeasureStep
    \/ ScoreScan
    \/ ExitCheck
    \/ ReadStore
    \/ MetaEnd
    \/ MainReturn

SpecVictim == InitVictim /\ [][NextVictim]_vars

\* The step that evaluates the bounds check of victim_function.
BoundsCheckStep == pc = "v_check" /\ pc' # "v_check"

\* C21: in every victim_function call array1_size and x are flushed, then
\* mfence and then ifence are executed, all before the bounds check and with
\* no memory operation in between: the check reads a bound that is not
\* cache-resident and directly follows an instruction fence.
C21_CheckAfterFlushAndFences ==
    /\ [][BoundsCheckStep =>
            /\ ~ size_cached /\ ~ x_cached
            /\ last_op = "mfence" /\ fence = "ifence"]_vars
    /\ [][(pc # "v_check" /\ pc' = "v_check") =>
            (pc = "v_fence" /\ last_op = "flush"
             /\ ~ size_cached /\ ~ x_cached)]_vars
    /\ [][(pc # "v_fence" /\ pc' = "v_fence") => pc = "v_flush"]_vars
    /\ [][(calls' # calls /\ calls' # <<>>) => BoundsCheckStep]_vars

C21_Witness ==
    /\ pc = "train" /\ rounds = 2 /\ Len(calls) = 2
    /\ calls[1] = "attack" /\ calls[2] = "training"
    /\ size_cached /\ fence = "ifence"

(***************************************************************************)
(* A call with more rounds than array1_size.                               *)
(***************************************************************************)
\* Two probe slots may be reported as hits in any round.
CycleOracle == [mode |-> "free", v |-> 0, hot |-> {0, 1}]

InitCycle ==
    /\ args = [tries |-> array1_size + 1, loops |-> 1, meta |-> 1,
               cache_threshold |-> 100]
    /\ oracle = CycleOracle
    /\ env \in { e \in Envs(args, 1) : e.secret_dist = SizeTNeg(4096) }
    /\ InitRest

SpecCycle == InitCycle /\ [][NextPerf]_vars

\* C22: in every round training_x = tries % array1_size is an in-bounds
\* offset of array1, and from one round of a call to the next it steps down
\* by one modulo array1_size, so consecutive rounds train on different
\* offsets.
C22_TrainingOffsetCycles ==
    /\ [](pc \in {"train", "measure", "check"} =>
            /\ Val(training_x) = tries % array1_size
            /\ SizeTLess(training_x, array1_size)
            /\ array1_size <= ARRAY1_LEN)
    /\ [][(pc = "evict" /\ pc' = "train" /\ rounds >= 2) =>
            /\ training_x' # training_x
            /\ Val(training_x')
                  = (Val(training_x) + array1_size - 1) % array1_size]_vars

C22_Witness ==
    /\ pc = "train" /\ rounds = 3
    /\ tries = array1_size - 1
    /\ training_x = Bits(array1_size - 1)

\* C23: after the scan of a score table j and k are two different candidates
\* in 0..255, results[j] is the highest score and results[k] the highest
\* score among the candidates other than j.
C23_ScanTopTwo ==
    pc = "check" =>
        /\ j \in Slots /\ k \in Slots /\ j # k
        /\ \A c \in Slots : results[c] <= results[j]
        /\ \A c \in Slots \ {j} : results[c] <= results[k]

C23_Witness ==
    /\ pc = "check"
    /\ results[0] = 3 /\ results[1] = 5 /\ results[128] = 4 /\ results[255] = 0
    /\ j = 1 /\ k = 128

\* The candidates with a non-zero score.
Scored == { c \in Slots : results[c] > 0 }

=============================================================================
